---- MODULE Spec2Model ----
(***************************************************************************)
(* SimulationManager (src/manager.py) and the FHN example model            *)
(* (src/example.py): configuration resolution, trial/seed handling,        *)
(* attribute materialisation, directory provisioning, process-wide         *)
(* logging, and persistence of the merged configuration.                   *)
(*                                                                         *)
(* Python values are tagged records: [none], [int], [str], [dict], [list]. *)
(* A dict is a function from its keys (strings) to Python values.  A path  *)
(* is the sequence of its components; os.path.join appends components and  *)
(* os.path.dirname drops the last one.  A file's content is tagged by its  *)
(* kind: [text], [hdf5] (the set of dataset names), [json], [log].         *)
(***************************************************************************)
EXTENDS Integers, Sequences, FiniteSets, TLC

VARIABLES
    default_params, \* the subclass's class attribute (example.py:9), or its absence
    cfgObj,         \* the caller's config dict object (example.py:83), None before
    self,           \* the instance: attribute name -> value
    args,           \* the arguments of the __init__ call in progress
    pc,             \* position inside __init__ ("idle" between calls)
    err,            \* the exception the last call raised, "" if none
    dirs,           \* the directories of the filesystem
    files,          \* the files of the filesystem: path -> content
    logging,        \* the root logger's configuration (process-wide)
    rng,            \* the seed of numpy's global generator (process-wide)
    clock,          \* wall-clock seconds read by datetime.now()
    runs,           \* constructor calls made by the process
    saves           \* save_data calls made by the process

vars == <<default_params, cfgObj, self, args, pc, err, dirs, files, logging,
          rng, clock, runs, saves>>

\* ------------------------------------------------------------ bounds
MaxRuns == 2
MaxSaves == 1
MaxClock == 1

\* ------------------------------------------------------------ Python values
None == [none |-> TRUE]
PyInt(n) == [int |-> n]
PyStr(s) == [str |-> s]
PyDict(d) == [dict |-> d]
PyList == [list |-> <<>>]
NoAttr == [absent |-> TRUE]

IsDict(v) == "dict" \in DOMAIN v
IsStr(v) == "str" \in DOMAIN v

\* bool(v)
Truthy(v) ==
    CASE "none" \in DOMAIN v -> FALSE
      [] "int" \in DOMAIN v -> v.int # 0
      [] "str" \in DOMAIN v -> v.str # ""
      [] "dict" \in DOMAIN v -> DOMAIN v.dict # {}
      [] OTHER -> FALSE

\* str(v) inside an f-string
Format(v) ==
    CASE "int" \in DOMAIN v -> ToString(v.int)
      [] "str" \in DOMAIN v -> v.str
      [] OTHER -> "None"

\* sub in s, for strings given as sequences of characters
Contains(sub, s) ==
    \E i \in 0..(Len(s) - Len(sub)) : SubSeq(s, i + 1, i + Len(sub)) = sub

TestWord == <<"t", "e", "s", "t">>
DebugWord == <<"d", "e", "b", "u", "g">>

\* obj.k = v
SetAttr(obj, k, v) ==
    [x \in DOMAIN obj \cup {k} |-> IF x = k THEN v ELSE obj[x]]

\* the overlay the wrong way round: a default wins over the configured value
MergeDefaultsWin(defaults, overrides) ==
    [k \in DOMAIN defaults \cup DOMAIN overrides |->
        IF k \in DOMAIN defaults THEN defaults[k] ELSE overrides[k]]

\* d = defaults.copy(); d.update(overrides) (manager.py:91-92)
Merge(defaults, overrides) ==
    [k \in DOMAIN defaults \cup DOMAIN overrides |->
        IF k \in DOMAIN overrides THEN overrides[k] ELSE defaults[k]]

\* ------------------------------------------------------------ filesystem
Join(p, name) == Append(p, name)
Dirname(p) == SubSeq(p, 1, Len(p) - 1)
Basename(p) == p[Len(p)]
IsFile(p) == p \in DOMAIN files

\* os.makedirs(p) without exist_ok: raises when p exists
MakedirsNoExistOk(ds, p) ==
    IF p \in ds THEN [raised |-> TRUE, dirs |-> ds]
    ELSE [raised |-> FALSE, dirs |-> ds \cup {SubSeq(p, 1, i) : i \in 1..Len(p)}]

\* os.makedirs(p, exist_ok=True): p and every missing parent (manager.py:115)
Makedirs(ds, p) ==
    [raised |-> FALSE, dirs |-> ds \cup {SubSeq(p, 1, i) : i \in 1..Len(p)}]

\* open(p, "w") ... write(content): created or truncated, never appended to
WriteFile(fs, p, content) ==
    [q \in DOMAIN fs \cup {p} |-> IF q = p THEN content ELSE fs[q]]

\* ------------------------------------------------------------ logging
NotConfigured == [unconfigured |-> TRUE]
Levels == <<"DEBUG", "INFO", "WARNING">>
Rank(level) == CHOOSE i \in 1..Len(Levels) : Levels[i] = level

\* logging.basicConfig(..., force=True): reconfigures on every call
BasicConfigForce(lg, fs, filename, level) ==
    [logging |-> [filename |-> filename, level |-> level],
     files |-> WriteFile(fs, filename, [log |-> <<>>])]

\* logging.basicConfig(level, filename, filemode="w") (manager.py:155): does
\* nothing when the root logger already has a handler; otherwise opens
\* (truncates) the file.
BasicConfig(lg, fs, filename, level) ==
    IF lg # NotConfigured
    THEN [logging |-> lg, files |-> fs]
    ELSE [logging |-> [filename |-> filename, level |-> level],
          files |-> WriteFile(fs, filename, [log |-> <<>>])]

\* logging.info(msg) from function func: one line appended to the configured
\* file when INFO passes the configured level.
LogInfo(lg, fs, func, path) ==
    IF lg = NotConfigured \/ Rank("INFO") < Rank(lg.level)
    THEN fs
    ELSE WriteFile(fs, lg.filename,
            [log |-> Append(fs[lg.filename].log,
                            [func |-> func, level |-> "INFO", path |-> path])])

\* ------------------------------------------------------------ inputs
DataLoc == "data"
ConfigFilePath == <<"cfg.json">>
MissingPath == <<"missing.json">>

\* the configuration of example.py:83-92, as the JSON file holds it
FileConfig ==
    [description |-> PyStr("Testing"), sim_dir |-> PyStr("dfgdfg"),
     data_loc |-> PyStr(DataLoc),
     params |-> PyDict([tend |-> PyInt(200)])]

DefaultValue == [tend |-> PyInt(100), dt |-> PyInt(1)]
DefaultDicts == {[k \in K |-> DefaultValue[k]] : K \in SUBSET {"tend", "dt"}}
DefaultParamsChoices == {NoAttr, PyList} \cup {PyDict(d) : d \in DefaultDicts}

ParamValue ==
    [tend |-> PyInt(200), trial |-> PyInt(2),
     params |-> PyDict([tend |-> PyInt(300)])]
ParamDicts(keys) == {[k \in K |-> ParamValue[k]] : K \in SUBSET keys}

\* a dict with the given optional entries left out when the choice is NoAttr
MkConfig(sim_dir, description, params) ==
    LET opt == [sim_dir |-> sim_dir, description |-> description, params |-> params]
        present == {k \in DOMAIN opt : opt[k] # NoAttr}
    IN [k \in present \cup {"data_loc"} |->
            IF k = "data_loc" THEN PyStr(DataLoc) ELSE opt[k]]

Configs(simDirs, descriptions, paramKeys) ==
    {MkConfig(s, d, p) :
        s \in simDirs, d \in descriptions,
        p \in {NoAttr} \cup {PyDict(m) : m \in ParamDicts(paramKeys)}}

\* ------------------------------------------------------------ state
Init ==
    /\ default_params \in DefaultParamsChoices
    /\ cfgObj = None
    /\ self = <<>>
    /\ args = None
    /\ pc = "idle"
    /\ err = ""
    /\ dirs = {}
    /\ files = (ConfigFilePath :> [json |-> FileConfig])
    /\ logging = NotConfigured
    /\ rng = None
    /\ clock = 0
    /\ runs = 0
    /\ saves = 0

\* the dict self.config refers to: the caller's object, or one json.load made
Config(obj) ==
    IF "ref" \in DOMAIN obj["config"] THEN cfgObj.dict ELSE obj["config"].dict

\* getattr(self, name): the instance's attribute, else the class's
GetDefaultParams(obj) ==
    IF "default_params" \in DOMAIN obj THEN obj["default_params"] ELSE default_params

\* an exception leaves __init__: no instance is bound
Raise(e) ==
    /\ err' = e
    /\ pc' = "idle"
    /\ self' = <<>>
    /\ args' = None

\* FHN(config, seed, log_info), the call (example.py:102, manager.py:43): the
\* config is a dict the caller has just built, a path, or a value of another type.
Construct(configs, seeds, logInfos, maxRuns) ==
    /\ pc = "idle"
    /\ runs < maxRuns
    /\ \E seed \in seeds, log_info \in logInfos :
        \/ \E c \in configs :
            /\ cfgObj' = PyDict(c)
            /\ args' = [config |-> [ref |-> TRUE], seed |-> seed, log_info |-> log_info]
        \/ \E src \in {[path |-> ConfigFilePath], [path |-> MissingPath], None} :
            /\ cfgObj' = cfgObj
            /\ args' = [config |-> src, seed |-> seed, log_info |-> log_info]
    /\ self' = <<>>
    /\ pc' = "set_config"
    /\ err' = ""
    /\ runs' = runs + 1
    /\ UNCHANGED <<default_params, dirs, files, logging, rng, clock, saves>>

\* the same call with the dict object the caller passed to an earlier call
ConstructSame(seeds, logInfos, maxRuns) ==
    /\ pc = "idle"
    /\ runs < maxRuns
    /\ cfgObj # None
    /\ \E seed \in seeds, log_info \in logInfos :
        args' = [config |-> [ref |-> TRUE], seed |-> seed, log_info |-> log_info]
    /\ self' = <<>>
    /\ pc' = "set_config"
    /\ err' = ""
    /\ runs' = runs + 1
    /\ UNCHANGED <<default_params, cfgObj, dirs, files, logging, rng, clock, saves>>

\* _set_config entered after the data directory was made: a provisioning step
\* moved ahead of the validation
set_config_after_makedirs ==
    /\ pc = "set_config"
    /\ dirs' = dirs \cup {<<DataLoc>>}
    /\ LET src == args.config
           isObj == "ref" \in DOMAIN src
           isPath == "path" \in DOMAIN src /\ IsFile(src.path)
       IN IF ~isObj /\ ~isPath
          THEN Raise("ValueError")
          ELSE LET obj == SetAttr(self, "config",
                                  IF isObj THEN src ELSE PyDict(files[src.path].json))
                   cfg == Config(obj)
                   dp == GetDefaultParams(obj)
               IN IF ~IsDict(dp)
                  THEN Raise("AssertionError")
                  ELSE IF "params" \notin DOMAIN cfg
                  THEN Raise("KeyError")
                  ELSE /\ self' = SetAttr(obj, "params",
                                          PyDict(Merge(dp.dict, cfg["params"].dict)))
                       /\ pc' = "set_trial"
                       /\ UNCHANGED <<err, args>>
    /\ UNCHANGED <<default_params, cfgObj, files, logging, rng, clock, runs, saves>>

\* _set_config (manager.py:69-92): load the configuration, require a dict
\* default_params, merge the configured params over a copy of the defaults.
set_config ==
    /\ pc = "set_config"
    /\ LET src == args.config
           isObj == "ref" \in DOMAIN src
           isPath == "path" \in DOMAIN src /\ IsFile(src.path)
       IN IF ~isObj /\ ~isPath
          THEN Raise("ValueError")
          ELSE LET obj == SetAttr(self, "config",
                                  IF isObj THEN src ELSE PyDict(files[src.path].json))
                   cfg == Config(obj)
                   dp == GetDefaultParams(obj)
               IN IF ~IsDict(dp)
                  THEN Raise("AssertionError")
                  ELSE IF "params" \notin DOMAIN cfg
                  THEN Raise("KeyError")
                  ELSE IF ~IsDict(cfg["params"])
                  THEN Raise("TypeError")
                  ELSE /\ self' = SetAttr(obj, "params",
                                          PyDict(Merge(dp.dict, cfg["params"].dict)))
                       /\ pc' = "set_trial"
                       /\ UNCHANGED <<err, args>>
    /\ UNCHANGED <<default_params, cfgObj, dirs, files, logging, rng, clock, runs, saves>>

\* seed if seed else 1 (manager.py:56)
TrialOf(seed) == IF Truthy(seed) THEN seed ELSE PyInt(1)

set_trial ==
    /\ pc = "set_trial"
    /\ self' = SetAttr(self, "trial", TrialOf(args.seed))
    /\ pc' = "seed"
    /\ UNCHANGED <<default_params, cfgObj, args, err, dirs, files, logging, rng,
                   clock, runs, saves>>

\* np.random.seed(self.trial) (manager.py:57)
seed_rng ==
    /\ pc = "seed"
    /\ rng' = self["trial"]
    /\ pc' = "setattr"
    /\ UNCHANGED <<default_params, cfgObj, self, args, err, dirs, files, logging,
                   clock, runs, saves>>

\* for key, value in self.params.items(): setattr(self, key, value)
SetAttrs(obj, items) ==
    [k \in DOMAIN obj \cup DOMAIN items |->
        IF k \in DOMAIN items THEN items[k] ELSE obj[k]]

set_attrs ==
    /\ pc = "setattr"
    /\ self' = SetAttrs(self, self["params"].dict)
    /\ pc' = "setup_directories"
    /\ UNCHANGED <<default_params, cfgObj, args, err, dirs, files, logging, rng,
                   clock, runs, saves>>

\* the directory name with config.sim_dir tried before the test flag
SimDirNameConfigFirst(cfg, log_info, now) ==
    IF "sim_dir" \in DOMAIN cfg /\ Truthy(cfg["sim_dir"]) THEN cfg["sim_dir"].str
    ELSE IF Contains(TestWord, log_info.str) THEN "test"
    ELSE "sim_" \o ToString(now)

\* the directory name (manager.py:104-111)
SimDirName(cfg, log_info, now) ==
    IF Contains(TestWord, log_info.str) THEN "test"
    ELSE IF "sim_dir" \in DOMAIN cfg /\ Truthy(cfg["sim_dir"]) THEN cfg["sim_dir"].str
    ELSE "sim_" \o ToString(now)

\* the branch of SimDirName that reads datetime.now()
ReadsClock(cfg, log_info) ==
    /\ ~Contains(TestWord, log_info.str)
    /\ ~("sim_dir" \in DOMAIN cfg /\ Truthy(cfg["sim_dir"]))

\* os.path.join(data_loc, sim_dir, f"trial_{trial}") (manager.py:114)
SimPath(data_loc, sim_dir, trial) ==
    <<data_loc, sim_dir, "trial_" \o Format(trial)>>

\* the level _setup_logging asks for (manager.py:147-152)
LogLevel(log_info) ==
    IF Contains(DebugWord, log_info.str) THEN "DEBUG" ELSE "INFO"

\* the Readme's text (manager.py:124-128)
ReadmeText(cfg) ==
    IF "description" \in DOMAIN cfg /\ Truthy(cfg["description"])
    THEN cfg["description"].str
    ELSE "No description provided."

ReadmePath(sim_path) == Join(Dirname(sim_path), "Readme.md")
LogPath(sim_path) == Join(sim_path, "sim.log")
Hdf5Path(sim_path, trial) == Join(sim_path, "data_" \o Format(trial) \o ".hdf5")
ConfigJsonPath(sim_path) == Join(Dirname(sim_path), "config.json")

\* _setup_directories with _setup_logging (manager.py:94-157)
setup_directories ==
    /\ pc = "setup_directories"
    /\ LET cfg == Config(self)
           log_info == args.log_info
       IN IF "data_loc" \notin DOMAIN cfg
          THEN Raise("KeyError") /\ UNCHANGED <<dirs, files, logging, clock>>
          ELSE IF ~IsStr(log_info)
          THEN Raise("TypeError") /\ UNCHANGED <<dirs, files, logging, clock>>
          ELSE \E now \in (IF ReadsClock(cfg, log_info) THEN clock..MaxClock ELSE {clock}) :
            LET sim_dir == SimDirName(cfg, log_info, now)
                sim_path == SimPath(cfg["data_loc"].str, sim_dir, self["trial"])
                made == Makedirs(dirs, sim_path)
                bc == BasicConfig(logging, files, LogPath(sim_path), LogLevel(log_info))
                opened == WriteFile(bc.files, ReadmePath(sim_path), [text |-> ""])
                hdf5_path == Hdf5Path(sim_path, self["trial"])
                written == WriteFile(
                               WriteFile(opened, ReadmePath(sim_path),
                                         [text |-> ReadmeText(cfg)]),
                               hdf5_path, [hdf5 |-> {}])
                obj == SetAttr(SetAttr(SetAttr(SetAttr(self,
                           "data_loc", cfg["data_loc"]),
                           "sim_dir", PyStr(sim_dir)),
                           "sim_path", [path |-> sim_path]),
                           "hdf5_path", [path |-> hdf5_path])
            IN IF made.raised
               THEN Raise("FileExistsError") /\ clock' = now
                    /\ UNCHANGED <<dirs, files, logging>>
               ELSE IF "description" \notin DOMAIN cfg
               THEN \* print(self.config['description']) at line 123, the Readme open
                    /\ Raise("KeyError")
                    /\ dirs' = made.dirs
                    /\ files' = opened
                    /\ logging' = bc.logging
                    /\ clock' = now
               ELSE /\ dirs' = made.dirs
                    /\ logging' = bc.logging
                    /\ files' = LogInfo(bc.logging, written, "_setup_directories", sim_path)
                    /\ clock' = now
                    /\ self' = obj
                    /\ pc' = "save_config"
                    /\ UNCHANGED <<err, args>>
    /\ UNCHANGED <<default_params, cfgObj, rng, runs, saves>>

\* json.dump(self.config, ...): the document the file holds
JsonDump(cfg) == [json |-> cfg]

\* self.config['params'] = self.params (manager.py:164)
WithParams(cfg, params) == SetAttr(cfg, "params", params)

\* _save_config (manager.py:159-172)
save_config ==
    /\ pc = "save_config"
    /\ LET cfg == WithParams(Config(self), self["params"])
           config_path == ConfigJsonPath(self["sim_path"].path)
       IN /\ IF "ref" \in DOMAIN self["config"]
             THEN cfgObj' = PyDict(cfg) /\ self' = self
             ELSE cfgObj' = cfgObj /\ self' = SetAttr(self, "config", PyDict(cfg))
          /\ files' = LogInfo(logging, WriteFile(files, config_path, JsonDump(cfg)),
                              "_save_config", config_path)
    /\ pc' = "fhn_init"
    /\ UNCHANGED <<default_params, args, err, dirs, logging, rng, clock, runs, saves>>

\* FHN.__init__ after super().__init__ (example.py:22-26)
fhn_init ==
    /\ pc = "fhn_init"
    /\ IF {"tend", "dt"} \subseteq DOMAIN self
       THEN /\ self' = SetAttrs(self,
                   [method |-> IF "method" \in DOMAIN Config(self)
                                  /\ Truthy(Config(self)["method"])
                               THEN Config(self)["method"] ELSE PyStr("RK45"),
                    t |-> [array |-> "t"], v |-> None, w |-> None])
            /\ pc' = "idle"
            /\ args' = None
            /\ err' = err
       ELSE Raise("AttributeError")
    /\ UNCHANGED <<default_params, cfgObj, dirs, files, logging, rng, clock, runs, saves>>

\* the caller holds a constructed model
Built == pc = "idle" /\ "w" \in DOMAIN self

\* FHN.run (example.py:34-37)
run ==
    /\ Built
    /\ self' = SetAttrs(self, [v |-> [array |-> "v"], w |-> [array |-> "w"]])
    /\ UNCHANGED <<default_params, cfgObj, args, pc, err, dirs, files, logging, rng,
                   clock, runs, saves>>

\* FHN.save_data (example.py:39-46): create_dataset(data=None) raises with
\* the file truncated and "time" written
save_data ==
    /\ Built
    /\ saves < MaxSaves
    /\ saves' = saves + 1
    /\ LET hdf5_path == self["hdf5_path"].path
       IN IF self["v"] = None
          THEN /\ files' = WriteFile(files, hdf5_path, [hdf5 |-> {"time"}])
               /\ err' = "TypeError"
          ELSE /\ files' = LogInfo(logging,
                               WriteFile(files, hdf5_path, [hdf5 |-> {"time", "v", "w"}]),
                               "save_data", hdf5_path)
               /\ err' = ""
    /\ UNCHANGED <<default_params, cfgObj, self, args, pc, dirs, logging, rng, clock, runs>>

\* ------------------------------------------------------------ specifications
Seeds == {None, PyInt(0), PyInt(2)}
LogInfos == {None, PyStr(<<>>), PyStr(DebugWord), PyStr(TestWord),
             PyStr(<<"l", "a">> \o TestWord), PyStr(TestWord \o <<" ">> \o DebugWord)}
SimDirs == {NoAttr, PyStr(""), PyStr("run1")}
Descriptions == {NoAttr, None, PyStr(""), PyStr("t")}
ParamKeys == {"tend", "trial", "params"}

Steps ==
    \/ set_config
    \/ set_trial
    \/ seed_rng
    \/ set_attrs
    \/ setup_directories
    \/ save_config
    \/ fhn_init
    \/ run
    \/ save_data

\* the script (example.py:82-105): one model is constructed, run and saved
ScriptRuns == 1

ScriptConfigs == Configs(SimDirs, Descriptions, ParamKeys)

Next ==
    \/ Construct(ScriptConfigs, Seeds, LogInfos, ScriptRuns)
    \/ Steps

Spec == Init /\ [][Next]_vars

\* a session: the caller constructs models one after the other in one process
SessionSeeds == {None, PyInt(2)}
SessionLogInfos == {PyStr(<<>>), PyStr(DebugWord)}
SessionSimDirs == {PyStr("run1")}
SessionDescriptions == {NoAttr, PyStr(""), PyStr("t")}
SessionParamKeys == {"tend", "params"}
SessionConfigs == Configs(SessionSimDirs, SessionDescriptions, SessionParamKeys)
SessionDefaults == {NoAttr, PyList, PyDict(DefaultValue)}

SessionInit == Init /\ default_params \in SessionDefaults

SessionNext ==
    \/ Construct(SessionConfigs, SessionSeeds, SessionLogInfos, MaxRuns)
    \/ ConstructSame(SessionSeeds, SessionLogInfos, MaxRuns)
    \/ Steps

SessionSpec == SessionInit /\ [][SessionNext]_vars

\* ------------------------------------------------------------ properties
FsUnchanged == dirs' = dirs /\ files' = files

\* SimulationManager.__init__ has returned for the construction in progress
ManagerDone == pc = "fhn_init"

\* the merge the claims call the resolved parameters, from what _set_config read
Resolved == Merge(default_params.dict, Config(self)["params"].dict)

\* C1: after _set_config, the keys of self.params are the union of the keys of
\* default_params and of config['params']; a key only in default_params keeps
\* its default, and every key of config['params'] has the config's value.
C1_ParamsAreDefaultsOverlaidByConfig ==
    pc = "set_trial" =>
        LET d == default_params.dict
            c == Config(self)["params"].dict
            p == self["params"].dict
        IN /\ DOMAIN p = DOMAIN d \cup DOMAIN c
           /\ \A k \in DOMAIN d \ DOMAIN c : p[k] = d[k]
           /\ \A k \in DOMAIN c : p[k] = c[k]

\* an overlapping key with different values, a default-only and a config-only key
C1_Witness ==
    /\ pc = "set_trial"
    /\ LET d == default_params.dict
           c == Config(self)["params"].dict
       IN /\ \E k \in DOMAIN d \cap DOMAIN c : d[k] # c[k]
          /\ DOMAIN d \ DOMAIN c # {}
          /\ DOMAIN c \ DOMAIN d # {}

\* C2: a construction that fails in configuration resolution (ValueError for
\* a config that is neither a dict nor an existing file, AssertionError for a
\* missing or non-dict default_params) has created no directory and created
\* or truncated no file: nothing touches the filesystem between the call and
\* the failure.
C2_ConfigFailureBeforeProvisioning ==
    [][/\ pc' = "set_config" => FsUnchanged
       /\ (pc = "set_config" /\ err' \in {"ValueError", "AssertionError"}) => FsUnchanged
       /\ (err' \in {"ValueError", "AssertionError"} /\ err' # err) => pc = "set_config"]_vars

\* a second construction fails on its config source after a first one provisioned
C2_Witness ==
    /\ pc = "idle"
    /\ err = "ValueError"
    /\ runs = 2
    /\ dirs # {}

\* C3: the construction steps happen in the fixed order resolve, trial, seed,
\* attributes, provisioning, config.json; the generator is seeded with trial
\* = seed or 1; config.json is written last, into an existing directory, with
\* config.params replaced by the resolved (merged) parameters.
C3_ConstructionOrder ==
    [][/\ pc' # pc =>
            <<pc, pc'>> \in {<<"idle", "set_config">>, <<"set_config", "set_trial">>,
                            <<"set_trial", "seed">>, <<"seed", "setattr">>,
                            <<"setattr", "setup_directories">>,
                            <<"setup_directories", "save_config">>,
                            <<"save_config", "fhn_init">>, <<"fhn_init", "idle">>}
               \cup {<<q, "idle">> : q \in {"set_config", "setup_directories"}}
       /\ rng' # rng => pc = "seed" /\ rng' = TrialOf(args.seed)
       /\ pc = "setattr" => \A k \in DOMAIN Resolved : self'[k] = Resolved[k]
       /\ dirs' # dirs => pc = "setup_directories"
       /\ pc = "save_config" =>
            LET config_path == ConfigJsonPath(self["sim_path"].path)
            IN /\ Dirname(config_path) \in dirs
               /\ files'[config_path] =
                    JsonDump(WithParams(Config(self), PyDict(Resolved)))
       /\ \A q \in DOMAIN files' :
            (Basename(q) = "config.json" /\ (q \notin DOMAIN files \/ files'[q] # files[q]))
                => pc = "save_config"]_vars

\* C4: the Readme holds the description verbatim when it is non-empty and
\* "No description provided." when it is absent, empty or null, and in each
\* case provisioning completes: the data file is created and the
\* construction goes on to write config.json.
C4_ReadmeTextOrFallback ==
    [][(pc = "setup_directories" /\ IsStr(args.log_info)) =>
            /\ pc' = "save_config"
            /\ files'[ReadmePath(self'["sim_path"].path)] =
                 [text |-> IF "description" \in DOMAIN Config(self)
                              /\ Truthy(Config(self)["description"])
                           THEN Config(self)["description"].str
                           ELSE "No description provided."]
            /\ self'["hdf5_path"].path \in DOMAIN files']_vars

\* C5: after a construction, config.json, sim.log and Readme.md lie in one
\* and the same directory, the run's path (with or without the trial_<s>
\* component), and config.json's params has the default for every key the
\* config did not override.
C5_ArtifactsInOneDirectory ==
    [][pc = "save_config" =>
        LET sim_path == self["sim_path"].path
            d == default_params.dict
            c == Config(self)["params"].dict
        IN /\ \E dir \in {sim_path, Dirname(sim_path)} :
                {Join(dir, "config.json"), Join(dir, "sim.log"), Join(dir, "Readme.md")}
                    \subseteq DOMAIN files'
           /\ LET saved == files'[ConfigJsonPath(sim_path)].json["params"]
              IN /\ IsDict(saved)
                 /\ \A k \in DOMAIN d \ DOMAIN c :
                        k \in DOMAIN saved.dict /\ saved.dict[k] = d[k]]_vars

\* C6: the directory name is 'test' when log_info contains 'test' (even with
\* config.sim_dir set), else config.sim_dir when present and non-empty, else a
\* timestamp name sim_<time>; the path is data_loc/<name>/trial_<trial> and
\* it exists.
C6_SimDirPriority ==
    pc = "save_config" =>
        LET cfg == Config(self)
            name == self["sim_dir"].str
        IN /\ Contains(TestWord, args.log_info.str) => name = "test"
           /\ (~Contains(TestWord, args.log_info.str) /\ "sim_dir" \in DOMAIN cfg
                    /\ cfg["sim_dir"].str # "")
                => name = cfg["sim_dir"].str
           /\ (~Contains(TestWord, args.log_info.str)
                    /\ ("sim_dir" \notin DOMAIN cfg \/ cfg["sim_dir"].str = ""))
                => \E t \in 0..clock : name = "sim_" \o ToString(t)
           /\ self["sim_path"].path =
                <<cfg["data_loc"].str, name, "trial_" \o ToString(self["trial"].int)>>
           /\ self["sim_path"].path \in dirs

\* log_info asks for a test run while config.sim_dir names a directory
C6_Witness ==
    /\ pc = "save_config"
    /\ Contains(TestWord, args.log_info.str)
    /\ "sim_dir" \in DOMAIN Config(self)
    /\ Config(self)["sim_dir"] = PyStr("run1")
    /\ self["sim_path"].path = <<"data", "test", "trial_2">>

\* C7: provisioning a path that already holds a run does not fail because the
\* directory or its files exist (whether it completes depends on the
\* configuration alone); the Readme is replaced by this run's text, the data
\* file is truncated to empty, and config.json is rewritten with this run's
\* configuration.
C7_ReprovisionOverwrites ==
    [][/\ (pc = "setup_directories" /\ IsStr(args.log_info)) =>
            /\ (pc' = "save_config") <=> ("description" \in DOMAIN Config(self))
            /\ pc' = "save_config" =>
                /\ self'["sim_path"].path \in dirs'
                /\ files'[ReadmePath(self'["sim_path"].path)] =
                     [text |-> ReadmeText(Config(self))]
                /\ files'[self'["hdf5_path"].path] = [hdf5 |-> {}]
       /\ pc = "save_config" =>
            files'[ConfigJsonPath(self["sim_path"].path)] =
                JsonDump(WithParams(Config(self), self["params"]))]_vars

\* the log shows data saved to the file, then the same path provisioned again,
\* and the file is empty
C7_Witness ==
    /\ ManagerDone
    /\ logging # NotConfigured
    /\ LET log == files[logging.filename].log
           hdf5_path == self["hdf5_path"].path
       IN /\ files[hdf5_path] = [hdf5 |-> {}]
          /\ \E i, j \in 1..Len(log) :
                /\ i < j
                /\ log[i].func = "save_data" /\ log[i].path = hdf5_path
                /\ log[j].func = "_setup_directories"
                /\ log[j].path = self["sim_path"].path

\* the files named sim.log
LogFiles(fs) == {q \in DOMAIN fs : Basename(q) = "sim.log"}

\* C8: the logging configuration is process-wide and the first call wins: once
\* set it never changes, its level is DEBUG iff the log_info of the
\* construction that set it contains 'debug' (else INFO), every later log event
\* is appended to that first file, and no other sim.log is ever created or
\* written.
C8_LoggingFirstCallWins ==
    [][/\ logging # NotConfigured => logging' = logging
       /\ (logging = NotConfigured /\ logging' # NotConfigured) =>
            /\ pc = "setup_directories"
            /\ logging'.level =
                 IF Contains(DebugWord, args.log_info.str) THEN "DEBUG" ELSE "INFO"
       /\ logging' # NotConfigured => LogFiles(files') = {logging'.filename}
       /\ logging' = NotConfigured => LogFiles(files') = {}
       /\ pc = "save_config" =>
            /\ Len(files'[logging.filename].log) = Len(files[logging.filename].log) + 1
            /\ files'[logging.filename].log[Len(files'[logging.filename].log)].path
                 = ConfigJsonPath(self["sim_path"].path)]_vars

\* a second model, constructed under another path, has logged into the first
\* run's file, and has no sim.log of its own
C8_Witness ==
    /\ Built
    /\ runs = 2
    /\ logging # NotConfigured
    /\ logging.level = "DEBUG"
    /\ logging.filename # LogPath(self["sim_path"].path)
    /\ LogPath(self["sim_path"].path) \notin DOMAIN files
    /\ \E i \in 1..Len(files[logging.filename].log) :
            files[logging.filename].log[i].path = self["sim_path"].path

\* C9: constructions never change the class's default_params; the generator
\* is seeded from the seed alone; and constructing again from a configuration
\* an earlier construction has processed and persisted (the same dict object,
\* its 'params' replaced by that construction) resolves the same parameters,
\* so config.json is rewritten with the same content.
C9_ConstructionsAreRepeatable ==
    [][/\ default_params' = default_params
       /\ pc = "seed" => rng' = TrialOf(args.seed)
       /\ (pc = "save_config"
            /\ ConfigJsonPath(self["sim_path"].path) \in DOMAIN files
            /\ files[ConfigJsonPath(self["sim_path"].path)] = JsonDump(Config(self))) =>
                files'[ConfigJsonPath(self["sim_path"].path)] =
                    files[ConfigJsonPath(self["sim_path"].path)]]_vars

\* C10: the trial number in the directory name trial_<n> and in the data file
\* name data_<n> is the value the generator was seeded with, whatever keys
\* config.params contains.
C10_TrialInPathIsTheSeed ==
    ManagerDone =>
        /\ Basename(self["sim_path"].path) = "trial_" \o Format(rng)
        /\ Basename(self["hdf5_path"].path) = "data_" \o Format(rng) \o ".hdf5"

====
